---- MODULE Spec2Model ----
(***************************************************************************)
(* State-machine model of src/main.py: the AudioThread worker, the         *)
(* AudioRecorderCore controller driven by the Qt GUI thread, and the       *)
(* AudioRecorderDBUS handlers driven by the dasbus EventLoop thread.       *)
(* Every control thread has a program counter at statement granularity;    *)
(* the worker has one at the granularity of its loop.                      *)
(***************************************************************************)
EXTENDS Integers, Sequences, FiniteSets, TLC

\* ---------------------------------------------------------------- bounds
MaxBlocks == 2      \* blocks the worker yields within one record session
NumSamples == 2     \* distinct block contents stream.read may return
MaxOps == 4        \* handlers dispatched and device changes in one run
MaxStamp == 1       \* distinct seconds datetime.now() may fall into

Blocks == 1..NumSamples
Stamps == 0..MaxStamp
Threads == {"gui", "dbus"}
NoDevice == -1      \* Python None as a device / combo data value

\* ------------------------------------------------- host audio driver
\* sd.query_devices() / sd.default.device as the driver may report them:
\* device i (0-based) has capability caps[i+1]; default_out is -1 when the
\* driver has no default output.
PluggedIn == [caps |-> <<"duplex", "duplex">>, default_out |-> 1]
Unplugged == [caps |-> << >>, default_out |-> NoDevice]
DeviceTables == {PluggedIn, Unplugged}

VARIABLES
  \* AudioThread fields
  active, recording, mode, input_device, output_device,
  \* AudioThread.run position, the block in hand, the sd.Stream resource
  wpc, data, streamOpen,
  \* AudioRecorderCore fields and widgets
  toggle_recording_active, button_text, input_combo, output_combo,
  \* GUI facts: buttons currently held down, window closed
  playHeld, recHeld, closed,
  \* per control thread: position, running handler, parameters and locals
  pc, op, hold, input_local, output_local, recording_array, ret,
  \* environment: the driver's device table, names of the files under data/
  driver, files,
  \* history: per handler run, the threads it started, the files it wrote,
  \* whether its reentrancy guard returned and whether it entered
  \* stop_stream with no worker running; the blocks read in the open
  \* record session; the handler that started the running worker; the
  \* scenario the last handlers form
  stat, sessionOpen, captured, path, scen,
  \* events so far: handlers dispatched and device changes
  nops

workerVars == <<active, recording, mode, input_device, output_device>>
threadVars == <<wpc, data, streamOpen>>
coreVars == <<toggle_recording_active, button_text>>
comboVars == <<input_combo, output_combo>>
guiVars == <<playHeld, recHeld, closed>>
localVars == <<hold, input_local, output_local, recording_array, ret>>
envVars == <<driver, files>>
histVars == <<stat, sessionOpen, captured, path, scen>>
vars == <<workerVars, threadVars, coreVars, comboVars, guiVars, pc, op,
          localVars, envVars, histVars, nops>>

ZeroStat == [started |-> 0, writes |-> 0, guarded |-> 0, idle_stops |-> 0]

\* QThread.isRunning(): run() has been entered and has not returned
isRunning == wpc # "idle"

\* ------------------------------------------------------------ combos
RECURSIVE Matching(_, _, _)
\* the 0-based indices i >= k-1 of devices the for-loop of populate_devices
\* adds to the combo
Matching(caps, is_input, k) ==
  IF k > Len(caps) THEN << >>
  ELSE LET rest == Matching(caps, is_input, k + 1)
           hit == IF is_input THEN caps[k] \in {"in", "duplex"}
                              ELSE caps[k] \in {"out", "duplex"}
       IN IF hit THEN <<k - 1>> \o rest ELSE rest

\* QComboBox.findData: 0-based position of the first item with that data
findData(items, d) ==
  IF \E i \in 1..Len(items) : items[i] = d
    THEN (CHOOSE i \in 1..Len(items) :
            items[i] = d /\ \A j \in 1..(i - 1) : items[j] # d) - 1
    ELSE -1

\* the combo populate_devices leaves behind, given the driver's answer
populate_devices(is_input, tbl) ==
  LET items == Matching(tbl.caps, is_input, 1)
      first == IF Len(items) > 0 THEN 0 ELSE -1
      default_index == findData(items, tbl.default_out)
  IN [items |-> items,
      cur |-> IF ~is_input /\ default_index >= 0 THEN default_index
              ELSE first]

\* QComboBox.currentData(): None when nothing is selected
currentData(combo) ==
  IF combo.cur >= 0 THEN combo.items[combo.cur + 1] ELSE NoDevice

\* ------------------------------------------------------------- Init
\* State after AudioRecorderCore.__init__: the AudioThread is constructed
\* (mode and the devices are not yet set), setup_ui has populated both combos
\* from the driver, nothing runs.
Init ==
  /\ driver = PluggedIn
  /\ active = FALSE /\ recording = << >>
  /\ mode = "unset" /\ input_device = NoDevice /\ output_device = NoDevice
  /\ wpc = "idle" /\ data = 0 /\ streamOpen = FALSE
  /\ toggle_recording_active = FALSE /\ button_text = "Toggle Recording"
  /\ input_combo = populate_devices(TRUE, driver)
  /\ output_combo = populate_devices(FALSE, driver)
  /\ playHeld = FALSE /\ recHeld = FALSE /\ closed = FALSE
  /\ pc = [t \in Threads |-> "idle"]
  /\ op = [t \in Threads |-> "none"]
  /\ hold = [t \in Threads |-> FALSE]
  /\ input_local = [t \in Threads |-> NoDevice]
  /\ output_local = [t \in Threads |-> NoDevice]
  /\ recording_array = [t \in Threads |-> << >>]
  /\ ret = [t \in Threads |-> "None"]
  /\ files = {}
  /\ stat = [t \in Threads |-> ZeroStat]
  /\ sessionOpen = FALSE /\ captured = << >>
  /\ path = "none" /\ scen = "none" /\ nops = 0

\* ------------------------------------------------- AudioThread.run
\* The loop is cut off after MaxBlocks blocks of one session: the worker
\* then stays in its current block until the flag is cleared.
LoopBound ==
  /\ mode = "record" => Len(recording) < MaxBlocks
  /\ sessionOpen => Len(captured) < MaxBlocks

\* with sd.Stream(...) as stream: the open succeeds, or raises and ends the
\* thread (the exception leaves run(); active is not touched)
OpenStream ==
  /\ wpc = "open"
  /\ \/ wpc' = "loop" /\ streamOpen' = TRUE /\ path' = path
     \/ wpc' = "idle" /\ streamOpen' = FALSE /\ path' = "none"
  /\ UNCHANGED <<workerVars, data, coreVars, comboVars, guiVars, pc, op,
                 localVars, envVars, stat, sessionOpen, captured, scen>>
  /\ UNCHANGED nops

\* while self.active: enter the body, or leave the with-block and return
LoopTest ==
  /\ wpc = "loop"
  /\ IF active
       THEN LoopBound /\ wpc' = "read" /\ UNCHANGED <<streamOpen, path>>
       ELSE wpc' = "idle" /\ streamOpen' = FALSE /\ path' = "none"
  /\ UNCHANGED <<workerVars, data, coreVars, comboVars, guiVars, pc, op,
                 localVars, envVars, stat, sessionOpen, captured, scen>>
  /\ UNCHANGED nops

\* data, overflowed = stream.read(1024); overflowed is never looked at
ReadBlock ==
  /\ wpc = "read"
  /\ \E b \in Blocks, overflowed \in BOOLEAN :
       /\ data' = b
       /\ captured' = IF sessionOpen THEN Append(captured, b) ELSE captured
  /\ wpc' = "proc"
  /\ UNCHANGED <<workerVars, streamOpen, coreVars, comboVars, guiVars, pc,
                 op, localVars, envVars, stat, sessionOpen, path, scen>>
  /\ UNCHANGED nops

\* the extend of one block onto a buffer
extend(buf, block) == Append(buf, block)

\* if mode == 'playthrough': stream.write(data)
\* elif mode == 'record': self.recording.extend(data)
ProcessBlock ==
  /\ wpc = "proc"
  /\ recording' = IF mode = "record" THEN extend(recording, data)
                  ELSE recording
  /\ wpc' = "loop" /\ data' = 0
  /\ UNCHANGED <<active, mode, input_device, output_device, streamOpen,
                 coreVars, comboVars, guiVars, pc, op, localVars, envVars,
                 histVars>>
  /\ UNCHANGED nops

Worker == OpenStream \/ LoopTest \/ ReadBlock \/ ProcessBlock

\* ------------------------------------------------- control threads
Goto(t, l) == pc' = [pc EXCEPT ![t] = l]

Bump(t, f) == stat' = [stat EXCEPT ![t][f] = @ + 1]

OthersIdle(t) == \A u \in Threads \ {t} : pc[u] = "idle"

\* the scenario a handler begun by t continues or opens: "T1" is a toggle
\* begun on an idle controller with no other handler in progress, "T2" the
\* toggle that follows it with no handler in between
NextScen(t, o) ==
  IF ~OthersIdle(t) THEN "none"
  ELSE CASE o = "toggle_recording" ->
              IF scen = "T1" THEN "T2"
              ELSE IF ~isRunning /\ ~toggle_recording_active THEN "T1"
              ELSE "none"
         [] OTHER -> "none"

\* the handlers each thread dispatches: button signals and the window close
\* on the GUI thread, the two exported methods on the bus thread
Enabled(t, o) ==
  IF t = "gui"
    THEN /\ ~closed
         /\ CASE o = "start_playback" -> ~playHeld
              [] o = "stop_playback" -> playHeld
              [] o = "start_recording" -> ~recHeld
              [] o = "stop_recording" -> recHeld
              [] o = "toggle_recording" -> TRUE
              [] o = "closeEvent" -> TRUE
              [] OTHER -> FALSE
    ELSE o \in {"toggle_recording", "ReloadDevices"}

Entry(o) ==
  CASE o = "start_playback" -> "pb_devices"
    [] o = "stop_playback" -> "st_active"
    [] o = "start_recording" -> "sr_guard"
    [] o = "stop_recording" -> "st_active"
    [] o = "toggle_recording" -> "tg_test"
    [] o = "closeEvent" -> "ce_test"
    [] o = "ReloadDevices" -> "rl_input"

Ops == {"start_playback", "stop_playback", "start_recording",
        "stop_recording", "toggle_recording", "closeEvent", "ReloadDevices"}

\* a signal or a bus call is dispatched: the handler is entered
Begin(t, o) ==
  /\ pc[t] = "idle" /\ Enabled(t, o)
  /\ nops < MaxOps /\ nops' = nops + 1
  /\ Goto(t, Entry(o))
  /\ op' = [op EXCEPT ![t] = o]
  /\ hold' = [hold EXCEPT ![t] = (o = "start_recording")]
  /\ playHeld' = CASE o = "start_playback" -> TRUE
                   [] o = "stop_playback" -> FALSE
                   [] OTHER -> playHeld
  /\ recHeld' = CASE o = "start_recording" -> TRUE
                  [] o = "stop_recording" -> FALSE
                  [] OTHER -> recHeld
  /\ stat' = [stat EXCEPT ![t] = ZeroStat]
  /\ scen' = NextScen(t, o)
  /\ UNCHANGED <<workerVars, threadVars, coreVars, comboVars, closed,
                 input_local, output_local, recording_array, ret, envVars,
                 sessionOpen, captured, path>>

\* the handler returns (pc "ret") or has raised (pc "err"); its frame dies
Return(t) ==
  /\ pc[t] \in {"ret", "err"}
  /\ Goto(t, "idle")
  /\ op' = [op EXCEPT ![t] = "none"]
  /\ hold' = [hold EXCEPT ![t] = FALSE]
  /\ input_local' = [input_local EXCEPT ![t] = NoDevice]
  /\ output_local' = [output_local EXCEPT ![t] = NoDevice]
  /\ recording_array' = [recording_array EXCEPT ![t] = << >>]
  /\ ret' = [ret EXCEPT ![t] = "None"]
  /\ stat' = [stat EXCEPT ![t] = ZeroStat]
  /\ scen' = IF scen = "T2" THEN "none" ELSE scen
  /\ UNCHANGED <<workerVars, threadVars, coreVars, comboVars, guiVars,
                 envVars, sessionOpen, captured, path>>
  /\ UNCHANGED nops

\* ---- AudioThread.start_stream(mode, input_device, output_device=None)
ModeArg(t) == IF op[t] = "start_playback" THEN "playthrough" ELSE "record"

\* the way into start_stream: playback, hold-to-record or the toggle
PathOf(t) ==
  CASE op[t] = "start_playback" -> "play"
    [] op[t] = "start_recording" -> "hold"
    [] OTHER -> "toggle"

AfterStart(t) == IF op[t] = "start_playback" THEN "ret" ELSE "sr_toggle"

\* self.mode = mode; self.input_device = input_device;
\* self.output_device = output_device
start_stream_fields(t) ==
  /\ pc[t] = "ss_fields"
  /\ mode' = ModeArg(t)
  /\ input_device' = input_local[t]
  /\ output_device' = output_local[t]
  /\ input_local' = [input_local EXCEPT ![t] = NoDevice]
  /\ output_local' = [output_local EXCEPT ![t] = NoDevice]
  /\ Goto(t, "ss_active")
  /\ UNCHANGED <<active, recording, threadVars, coreVars, comboVars,
                 guiVars, op, hold, recording_array, ret, envVars, histVars>>
  /\ UNCHANGED nops

\* self.active = True
start_stream_active(t) ==
  /\ pc[t] = "ss_active"
  /\ active' = TRUE
  /\ Goto(t, "ss_start")
  /\ UNCHANGED <<recording, mode, input_device, output_device, threadVars,
                 coreVars, comboVars, guiVars, op, localVars, envVars,
                 histVars>>
  /\ UNCHANGED nops

\* self.start(): QThread.start does nothing when the thread is running
start_stream_start(t) ==
  /\ pc[t] = "ss_start"
  /\ IF isRunning
       THEN wpc' = wpc /\ stat' = stat /\ path' = path
       ELSE wpc' = "open" /\ Bump(t, "started") /\ path' = PathOf(t)
  /\ Goto(t, AfterStart(t))
  /\ UNCHANGED <<workerVars, data, streamOpen, coreVars, comboVars, guiVars,
                 op, localVars, envVars, sessionOpen, captured, scen>>
  /\ UNCHANGED nops

\* ---- AudioThread.stop_stream()
\* mutant: stop_playback goes on to flush the buffer as stop_recording does
AfterStop_Flush(t) ==
  IF op[t] = "closeEvent" THEN "ce_super" ELSE "sp_len"

AfterStop(t) ==
  CASE op[t] = "stop_playback" -> "ret"
    [] op[t] = "closeEvent" -> "ce_super"
    [] OTHER -> "sp_len"

\* mutant: stop_stream forgets to clear the flag
stop_stream_active_NoClear(t) ==
  /\ pc[t] = "st_active"
  /\ Goto(t, "st_wait")
  /\ stat' = IF isRunning THEN stat
             ELSE [stat EXCEPT ![t].idle_stops = @ + 1]
  /\ UNCHANGED <<workerVars, threadVars, coreVars, comboVars, guiVars, op,
                 localVars, envVars, sessionOpen, captured, path, scen, nops>>

\* self.active = False
stop_stream_active(t) ==
  /\ pc[t] = "st_active"
  /\ active' = FALSE
  /\ Goto(t, "st_wait")
  /\ stat' = IF isRunning THEN stat
             ELSE [stat EXCEPT ![t].idle_stops = @ + 1]
  /\ UNCHANGED <<recording, mode, input_device, output_device, threadVars,
                 coreVars, comboVars, guiVars, op, localVars, envVars,
                 sessionOpen, captured, path, scen>>
  /\ UNCHANGED nops

\* mutant: the wait returns only on the exit of a thread that was running
\* when stop_stream was entered
stop_stream_wait_Blocks(t) ==
  /\ pc[t] = "st_wait"
  /\ ~isRunning /\ stat[t].idle_stops = 0
  /\ Goto(t, AfterStop(t))
  /\ UNCHANGED <<workerVars, threadVars, coreVars, comboVars, guiVars, op,
                 localVars, envVars, histVars, nops>>

\* mutant: stop_stream returns without joining the thread
stop_stream_wait_NoWait(t) ==
  /\ pc[t] = "st_wait"
  /\ Goto(t, AfterStop(t))
  /\ UNCHANGED <<workerVars, threadVars, coreVars, comboVars, guiVars, op,
                 localVars, envVars, histVars, nops>>

\* self.wait(): returns once the thread is not running
stop_stream_wait(t) ==
  /\ pc[t] = "st_wait"
  /\ ~isRunning
  /\ Goto(t, AfterStop(t))
  /\ UNCHANGED <<workerVars, threadVars, coreVars, comboVars, guiVars, op,
                 localVars, envVars, histVars>>
  /\ UNCHANGED nops

\* ---- AudioRecorderCore.start_playback
\* input_device = self.input_combo.currentData()
\* output_device = self.output_combo.currentData()
start_playback(t) ==
  /\ pc[t] = "pb_devices"
  /\ input_local' = [input_local EXCEPT ![t] = currentData(input_combo)]
  /\ output_local' = [output_local EXCEPT ![t] = currentData(output_combo)]
  /\ Goto(t, "ss_fields")
  /\ UNCHANGED <<workerVars, threadVars, coreVars, comboVars, guiVars, op,
                 hold, recording_array, ret, envVars, histVars>>
  /\ UNCHANGED nops

\* ---- AudioRecorderCore.start_recording(is_hold_mode)
AfterRecording(t) == IF op[t] = "toggle_recording" THEN "tg_ret" ELSE "ret"

\* mutant: start_recording without its reentrancy guard
start_recording_guard_NoGuard(t) ==
  /\ pc[t] = "sr_guard"
  /\ Goto(t, "sr_input")
  /\ UNCHANGED <<workerVars, threadVars, coreVars, comboVars, guiVars, op,
                 localVars, envVars, histVars, nops>>

\* if not is_hold_mode and self.toggle_recording_active: return
start_recording_guard(t) ==
  /\ pc[t] = "sr_guard"
  /\ IF ~hold[t] /\ toggle_recording_active
       THEN Goto(t, AfterRecording(t)) /\ Bump(t, "guarded")
       ELSE Goto(t, "sr_input") /\ stat' = stat
  /\ UNCHANGED <<workerVars, threadVars, coreVars, comboVars, guiVars, op,
                 localVars, envVars, sessionOpen, captured, path, scen>>
  /\ UNCHANGED nops

\* input_device = self.input_combo.currentData()
start_recording_input(t) ==
  /\ pc[t] = "sr_input"
  /\ input_local' = [input_local EXCEPT ![t] = currentData(input_combo)]
  /\ Goto(t, "sr_reset")
  /\ UNCHANGED <<workerVars, threadVars, coreVars, comboVars, guiVars, op,
                 hold, output_local, recording_array, ret, envVars,
                 histVars>>
  /\ UNCHANGED nops

\* self.audio_thread.recording = []
start_recording_reset(t) ==
  /\ pc[t] = "sr_reset"
  /\ recording' = << >>
  /\ Goto(t, "ss_fields")
  /\ sessionOpen' = TRUE
  /\ captured' = IF sessionOpen THEN captured ELSE << >>
  /\ UNCHANGED <<active, mode, input_device, output_device, threadVars,
                 coreVars, comboVars, guiVars, op, localVars, envVars, stat,
                 path, scen>>
  /\ UNCHANGED nops

\* if not is_hold_mode: self.toggle_recording_active = True; setText(...)
start_recording_toggle(t) ==
  /\ pc[t] = "sr_toggle"
  /\ IF ~hold[t]
       THEN /\ toggle_recording_active' = TRUE
            /\ button_text' = "Stop Recording"
       ELSE UNCHANGED coreVars
  /\ Goto(t, AfterRecording(t))
  /\ UNCHANGED <<workerVars, threadVars, comboVars, guiVars, op, localVars,
                 envVars, histVars>>
  /\ UNCHANGED nops

\* ---- AudioRecorderCore.stop_recording (after stop_stream)
\* mutant: stop_recording writes whatever the buffer holds
stop_recording_len_NoTest(t) ==
  /\ pc[t] = "sp_len"
  /\ Goto(t, "sp_array")
  /\ UNCHANGED <<workerVars, threadVars, coreVars, comboVars, guiVars, op,
                 localVars, envVars, histVars, nops>>

\* if len(self.audio_thread.recording) > 0:
stop_recording_len(t) ==
  /\ pc[t] = "sp_len"
  /\ IF Len(recording) > 0 THEN Goto(t, "sp_array") ELSE Goto(t, "sp_toggle")
  /\ UNCHANGED <<workerVars, threadVars, coreVars, comboVars, guiVars, op,
                 localVars, envVars, histVars>>
  /\ UNCHANGED nops

\* np.array(list of rows): the same samples in the same order
np_array(buf) == [i \in 1..Len(buf) |-> buf[i]]

\* recording_array = np.array(self.audio_thread.recording)
stop_recording_array(t) ==
  /\ pc[t] = "sp_array"
  /\ recording_array' = [recording_array EXCEPT ![t] = np_array(recording)]
  /\ Goto(t, "sp_write")
  /\ UNCHANGED <<workerVars, threadVars, coreVars, comboVars, guiVars, op,
                 hold, input_local, output_local, ret, envVars, histVars>>
  /\ UNCHANGED nops

\* Path('data') / f"recording_{timestamp}.wav": one name per second
filename(timestamp) == timestamp

\* timestamp = datetime.now()...; sf.write(str(filename), ...): the file is
\* created or overwritten, or the write raises and stop_recording is left
stop_recording_write(t) ==
  /\ pc[t] = "sp_write"
  /\ \/ /\ \E timestamp \in Stamps :
             files' = files \cup {filename(timestamp)}
        /\ Goto(t, "sp_toggle") /\ Bump(t, "writes")
        /\ UNCHANGED <<sessionOpen, captured>>
     \/ /\ Goto(t, "err")
        /\ sessionOpen' = FALSE /\ captured' = << >>
        /\ UNCHANGED <<files, stat>>
  /\ driver' = driver /\ path' = path
  /\ recording_array' = [recording_array EXCEPT ![t] = << >>]
  /\ UNCHANGED <<workerVars, threadVars, coreVars, comboVars, guiVars, op,
                 hold, input_local, output_local, ret, scen>>
  /\ UNCHANGED nops

\* if self.toggle_recording_active: ... = False; setText(...)
stop_recording_toggle(t) ==
  /\ pc[t] = "sp_toggle"
  /\ IF toggle_recording_active
       THEN /\ toggle_recording_active' = FALSE
            /\ button_text' = "Toggle Recording"
       ELSE UNCHANGED coreVars
  /\ Goto(t, AfterRecording(t))
  /\ sessionOpen' = FALSE /\ captured' = << >>
  /\ UNCHANGED <<workerVars, threadVars, comboVars, guiVars, op, localVars,
                 envVars, stat, path, scen>>
  /\ UNCHANGED nops

\* ---- AudioRecorderCore.toggle_recording / AudioRecorderDBUS.ToggleRecording
\* mutant: toggle_recording always takes the start branch
toggle_recording_test_AlwaysStart(t) ==
  /\ pc[t] = "tg_test"
  /\ Goto(t, "sr_guard")
  /\ UNCHANGED <<workerVars, threadVars, coreVars, comboVars, guiVars, op,
                 localVars, envVars, histVars, nops>>

\* if not self.toggle_recording_active: start_recording() else stop_recording()
toggle_recording_test(t) ==
  /\ pc[t] = "tg_test"
  /\ IF ~toggle_recording_active
       THEN Goto(t, "sr_guard")
       ELSE Goto(t, "st_active")
  /\ UNCHANGED <<workerVars, threadVars, coreVars, comboVars, guiVars, op,
                 localVars, envVars, histVars>>
  /\ UNCHANGED nops

\* return self.toggle_recording_active
toggle_recording_return(t) ==
  /\ pc[t] = "tg_ret"
  /\ ret' = [ret EXCEPT ![t] = IF toggle_recording_active THEN "True"
                               ELSE "False"]
  /\ Goto(t, "ret")
  /\ UNCHANGED <<workerVars, threadVars, coreVars, comboVars, guiVars, op,
                 hold, input_local, output_local, recording_array, envVars,
                 histVars>>
  /\ UNCHANGED nops

\* ---- AudioRecorderCore.closeEvent
\* if self.audio_thread.isRunning(): self.audio_thread.stop_stream()
closeEvent_test(t) ==
  /\ pc[t] = "ce_test"
  /\ IF isRunning THEN Goto(t, "st_active") ELSE Goto(t, "ce_super")
  /\ UNCHANGED <<workerVars, threadVars, coreVars, comboVars, guiVars, op,
                 localVars, envVars, histVars>>
  /\ UNCHANGED nops

\* super().closeEvent(event): the window is closed, the GUI loop ends
closeEvent_super(t) ==
  /\ pc[t] = "ce_super"
  /\ closed' = TRUE
  /\ Goto(t, "ret")
  /\ UNCHANGED <<workerVars, threadVars, coreVars, comboVars, playHeld,
                 recHeld, op, localVars, envVars, histVars>>
  /\ UNCHANGED nops

\* ---- AudioRecorderDBUS.ReloadDevices
\* mutant: the reload rebinds the worker to the combo's new selection
ReloadDevices_input_Rebinds(t) ==
  /\ pc[t] = "rl_input"
  /\ input_combo' = populate_devices(TRUE, driver)
  /\ input_device' = currentData(populate_devices(TRUE, driver))
  /\ Goto(t, "rl_output")
  /\ UNCHANGED <<active, recording, mode, output_device, threadVars,
                 coreVars, output_combo, guiVars, op, localVars, envVars,
                 histVars, nops>>

\* self.core.populate_devices(self.core.input_combo, True)
ReloadDevices_input(t) ==
  /\ pc[t] = "rl_input"
  /\ input_combo' = populate_devices(TRUE, driver)
  /\ Goto(t, "rl_output")
  /\ UNCHANGED <<workerVars, threadVars, coreVars, output_combo, guiVars,
                 op, localVars, envVars, histVars>>
  /\ UNCHANGED nops

\* self.core.populate_devices(self.core.output_combo, False); return
ReloadDevices_output(t) ==
  /\ pc[t] = "rl_output"
  /\ output_combo' = populate_devices(FALSE, driver)
  /\ Goto(t, "ret")
  /\ UNCHANGED <<workerVars, threadVars, coreVars, input_combo, guiVars,
                 op, localVars, envVars, histVars>>
  /\ UNCHANGED nops

\* ---- environment
\* devices are plugged in or removed: the driver reports another table
Replug ==
  /\ nops < MaxOps /\ nops' = nops + 1
  /\ \E tbl \in DeviceTables \ {driver} : driver' = tbl
  /\ UNCHANGED <<workerVars, threadVars, coreVars, comboVars, guiVars, pc,
                 op, localVars, files, histVars>>

\* ---------------------------------------------------------------- Next
Step(t) ==
  \/ start_stream_fields(t) \/ start_stream_active(t) \/ start_stream_start(t)
  \/ stop_stream_active(t) \/ stop_stream_wait(t)
  \/ start_playback(t)
  \/ start_recording_guard(t) \/ start_recording_input(t)
  \/ start_recording_reset(t) \/ start_recording_toggle(t)
  \/ stop_recording_len(t) \/ stop_recording_array(t)
  \/ stop_recording_write(t) \/ stop_recording_toggle(t)
  \/ toggle_recording_test(t) \/ toggle_recording_return(t)
  \/ closeEvent_test(t) \/ closeEvent_super(t)
  \/ ReloadDevices_input(t) \/ ReloadDevices_output(t)
  \/ Return(t)

Next ==
  \/ Worker
  \/ \E t \in Threads, o \in Ops : Begin(t, o)
  \/ \E t \in Threads : Step(t)
  \/ Replug

Spec == Init /\ [][Next]_vars

\* ---- the playthrough button alone: press and release of "Hold to Play"
\* on the GUI thread against the worker, over the device pairs that device
\* changes and remote reloads select; no other handler touches the worker.
\* The OS schedules the worker and a block read returns (WF on Worker); the
\* GUI thread runs a dispatched handler on (WF on PlayStep).
PlayStep ==
  \/ start_playback("gui")
  \/ start_stream_fields("gui") \/ start_stream_active("gui")
  \/ start_stream_start("gui")
  \/ stop_stream_active("gui") \/ stop_stream_wait("gui")
  \/ Return("gui")

ReloadStep ==
  \/ Begin("dbus", "ReloadDevices")
  \/ ReloadDevices_input("dbus") \/ ReloadDevices_output("dbus")
  \/ Return("dbus")

PlayNext ==
  \/ Worker
  \/ \E o \in {"start_playback", "stop_playback"} : Begin("gui", o)
  \/ PlayStep
  \/ ReloadStep
  \/ Replug

PlaythroughSpec ==
  Init /\ [][PlayNext]_vars /\ WF_vars(Worker) /\ WF_vars(PlayStep)

\* ================================================================ claims
AllIdle == \A t \in Threads : pc[t] = "idle"

\* C1: between handlers, toggle_recording_active is true exactly when the
\* worker is running in 'record' mode and was started through the toggle
\* path.
C1_ToggleIffToggleSession ==
  AllIdle =>
    (toggle_recording_active <=>
       (isRunning /\ mode = "record" /\ path = "toggle"))

C3_ReentrantStartIsNoOp ==
  /\ [][\A t \in Threads :
          (pc[t] = "sr_guard" /\ ~hold[t] /\ toggle_recording_active
           /\ pc'[t] # pc[t]) =>
            /\ pc'[t] = "tg_ret"
            /\ toggle_recording_active'
            /\ UNCHANGED <<workerVars, threadVars, coreVars, files>>]_vars
  /\ [](\A t \in Threads :
          stat[t].guarded = 1 =>
            /\ stat[t].started = 0 /\ stat[t].writes = 0
            /\ pc[t] \in {"tg_ret", "ret"})

\* a toggle has returned through the guard of start_recording
C3_Witness ==
  \E t \in Threads :
    pc[t] = "ret" /\ stat[t].guarded = 1 /\ toggle_recording_active

\* C4: the array stop_recording is about to write holds exactly the blocks
\* the worker read since the record session was started, in read order.
C4_ArtifactIsSessionBlocks ==
  \A t \in Threads :
    (pc[t] = "sp_write" /\ sessionOpen) => recording_array[t] = captured

\* C5: stop_recording that finds the buffer empty skips the write (no file,
\* no error) and goes on to clear the toggle state.
C5_EmptyStopWritesNothing ==
  /\ [][\A t \in Threads :
          (pc[t] = "sp_len" /\ Len(recording) = 0 /\ pc'[t] # pc[t]) =>
            /\ pc'[t] = "sp_toggle"
            /\ files' = files /\ stat'[t].writes = 0]_vars
  /\ [][\A t \in Threads :
          (pc[t] = "sp_toggle" /\ stat[t].writes = 0 /\ pc'[t] # pc[t]) =>
            /\ ~toggle_recording_active'
            /\ pc'[t] \in {"tg_ret", "ret"}
            /\ files' = files /\ stat'[t].writes = 0]_vars

\* the second toggle of an empty session has returned: nothing written,
\* toggle state cleared
C5_Witness ==
  \E t \in Threads :
    /\ pc[t] = "ret" /\ scen = "T2"
    /\ Len(recording) = 0 /\ stat[t].writes = 0
    /\ ~toggle_recording_active /\ files = {}

\* C6: start_stream('playthrough') followed by stop_stream(): the stop
\* returns, and then no worker runs and the stream is released; every start,
\* the one after a stop included, starts a new worker thread whose loop
\* finds the flag set while the button is held.
C6_StartStopTerminates ==
  /\ (pc["gui"] = "st_active") ~> (pc["gui"] = "ret")
  /\ [](pc["gui"] = "ret" /\ op["gui"] = "stop_playback" =>
          ~isRunning /\ ~streamOpen)
  /\ [](pc["gui"] = "ret" /\ op["gui"] = "start_playback" =>
          stat["gui"].started = 1 /\ mode = "playthrough")
  /\ [](pc["gui"] = "idle" /\ playHeld /\ isRunning => active)

\* the start after a completed start/stop pair has started a new worker,
\* which has opened the stream and entered its loop
C6_Witness ==
  /\ pc["gui"] = "ret" /\ op["gui"] = "start_playback"
  /\ nops >= 3 /\ stat["gui"].started = 1
  /\ wpc = "read" /\ streamOpen

\* C7: stop_stream() with no worker running does not block and changes
\* neither mode, the devices, the buffer nor the toggle state.
C7_IdleStopIsNoOp ==
  /\ [](\A t \in Threads :
          (pc[t] = "st_wait" /\ ~isRunning) => ENABLED stop_stream_wait(t))
  /\ [][\A t \in Threads :
          (pc[t] \in {"st_active", "st_wait"} /\ ~isRunning
           /\ pc'[t] # pc[t]) =>
            /\ pc'[t] \notin {"err", "st_active"}
            /\ UNCHANGED <<mode, input_device, output_device, recording,
                           toggle_recording_active, threadVars>>]_vars

\* a handler has come back from a stop_stream() entered with no worker
\* running
C7_Witness ==
  \E t \in Threads :
    /\ pc[t] = "ret" /\ stat[t].idle_stops = 1
    /\ op[t] \in {"stop_playback", "stop_recording"}

\* C8: the handlers run one at a time: two toggles are never both past the
\* 'not toggle-active' check on their way to start a session, and no handler
\* is in progress on both threads at once.
Starting ==
  {"sr_input", "sr_reset", "ss_fields", "ss_active", "ss_start", "sr_toggle"}

C8_TogglesSerialized ==
  ~(/\ op["gui"] = "toggle_recording" /\ pc["gui"] \in Starting
    /\ op["dbus"] = "toggle_recording" /\ pc["dbus"] \in Starting)

\* C9: start_playback and start_recording(True) do not invoke start_stream
\* on a worker that is running.
C9_NoStartWhileActive ==
  \A t \in Threads :
    (pc[t] = "ss_fields" /\ op[t] \in {"start_playback", "start_recording"})
      => ~isRunning

\* C10: a control thread is about to assign or read the buffer only when no
\* worker is alive.
C10_BufferAccessAfterJoin ==
  \A t \in Threads :
    pc[t] \in {"sr_reset", "sp_len", "sp_array"} => ~isRunning

\* C11: when stop_stream() returns the worker has exited and the stream is
\* released; from then on the worker leaves its idle state only through the
\* start() of a start_stream, and while it is idle no block is read and
\* nothing is appended to the buffer.
C11_StoppedUntilNextStart ==
  /\ [][\A t \in Threads :
          (pc[t] = "st_wait" /\ pc'[t] # pc[t]) =>
            (wpc' = "idle" /\ ~streamOpen')]_vars
  /\ [][(wpc = "idle" /\ wpc' # "idle") =>
          \E t \in Threads : pc[t] = "ss_start" /\ pc'[t] # pc[t]]_vars
  /\ [][(data' # data \/ Len(recording') > Len(recording)) =>
          wpc # "idle"]_vars

\* stop_recording has come back from the stop of a worker that was running
\* and had appended a block; the worker is idle
C11_Witness ==
  \E t \in Threads :
    /\ pc[t] = "ret" /\ op[t] = "stop_recording"
    /\ stat[t].idle_stops = 0 /\ Len(recording) > 0
    /\ wpc = "idle" /\ ~streamOpen

\* C12: while a caller of stop_stream waits, having cleared the flag, the
\* worker's next loop test leaves the loop: it finishes at most the block in
\* progress.
C12_StopAtBlockBoundary ==
  [][((\E t \in Threads : pc[t] = "st_wait") /\ wpc = "loop" /\ wpc' # wpc)
       => wpc' = "idle"]_vars

\* C13: stop_recording left through a failed write has cleared the toggle
\* state and restored the button label.
C13_WriteFailureStillCleansUp ==
  \A t \in Threads :
    pc[t] = "err" =>
      (~toggle_recording_active /\ button_text = "Toggle Recording")

\* C14: once the stream open of a start attempt has failed, no worker runs
\* and the running flag is false.
C14_OpenFailureNotHalfStarted ==
  [][(wpc = "open" /\ wpc' = "idle") => (~active' /\ ~streamOpen')]_vars

\* C15: after stop_recording returns the accumulation buffer is empty.
C15_BufferClearedAfterStop ==
  \A t \in Threads :
    (pc[t] = "ret" /\ op[t] = "stop_recording") => recording = << >>

\* C16: every write of a non-empty session adds one artifact file to those
\* already there.
C16_OneFilePerSession ==
  [][\A t \in Threads :
       (pc[t] = "sp_write" /\ pc'[t] = "sp_toggle") =>
         Cardinality(files') = Cardinality(files) + 1]_vars

\* C17: a step of ReloadDevices leaves the worker's mode, devices, flag and
\* buffer, the worker thread and the toggle state unchanged; it changes the
\* combos only.
C17_ReloadLeavesSession ==
  [][\A t \in Threads :
       ((op[t] = "ReloadDevices" \/ op'[t] = "ReloadDevices")
        /\ pc'[t] # pc[t]) =>
         UNCHANGED <<workerVars, threadVars, coreVars, files>>]_vars

\* a reload has emptied the input combo under a running session, which is
\* still bound to the device it was started with
C17_Witness ==
  \E t \in Threads :
    /\ pc[t] = "ret" /\ op[t] = "ReloadDevices"
    /\ isRunning /\ active /\ input_device = 0
    /\ input_combo.items = << >> /\ currentData(input_combo) = NoDevice

\* C18: when closeEvent returns no worker thread is running.
C18_CloseStopsWorker ==
  \A t \in Threads :
    (pc[t] = "ret" /\ op[t] = "closeEvent") => ~isRunning

\* C19: no step of stop_playback or closeEvent changes the toggle state, the
\* button, the buffer or the files, and neither handler enters the part of
\* stop_recording that writes.
C19_StopOnlyStopsWorker ==
  /\ [][\A t \in Threads :
          ((op[t] \in {"stop_playback", "closeEvent"}
            \/ op'[t] \in {"stop_playback", "closeEvent"})
           /\ pc'[t] # pc[t]) =>
            UNCHANGED <<coreVars, recording, files>>]_vars
  /\ [](\A t \in Threads :
          op[t] \in {"stop_playback", "closeEvent"} =>
            /\ stat[t].writes = 0
            /\ pc[t] \notin {"sp_len", "sp_array", "sp_write", "sp_toggle",
                             "err"})

\* a toggle session holding a block has been ended by closeEvent or
\* stop_playback: the worker is gone, the block is still in the buffer, the
\* toggle state is still true and no file exists
C19_Witness ==
  \E t \in Threads :
    /\ pc[t] = "ret" /\ op[t] \in {"stop_playback", "closeEvent"}
    /\ stat[t].idle_stops = 0 /\ ~isRunning
    /\ Len(recording) > 0 /\ toggle_recording_active /\ files = {}

====
